---------------------------- MODULE Spec2Model ----------------------------
(***************************************************************************)
(* Memory-match game on a button/LED matrix (src/game.py).                 *)
(*                                                                         *)
(* Threads: the main thread (_main / Game.play), the worker thread         *)
(* (Game._background_logic_checker) and the driver's notifier threads      *)
(* (Game.when_pressed).  The board is scaled: HalfSize pairs on            *)
(* 2 * HalfSize slots instead of 8 pairs on 16 slots.                      *)
(***************************************************************************)
EXTENDS Integers, Sequences, FiniteSets, TLC

\* ---- bounds of the model ------------------------------------------------
\* Pairs on the board (8 in the source: the size of numbers1 / numbers2).
HalfSize == 2
\* when_pressed calls in one run.
MaxPresses == 5
\* Events waiting in the queue at once.
MaxQueue == 2
\* Calls of create_pairs in one run of SpecPairs.
MaxCalls == 3
\* Calls of when_held in one run of SpecHold, and presses in such a run.
MaxHolds == 1
HoldPresses == 4
\* Game objects made on one button pad in one run of SpecRestart.
MaxGames == 2

\* ---- program constants --------------------------------------------------
\* _get_pair_index's "no pair holds this button".
NotFound == -1

NumSlots == 2 * HalfSize
Slots == 1..NumSlots
LowHalf == 1..HalfSize
HighHalf == (HalfSize + 1)..NumSlots

\* Game.__init__: self.colors, self.sounds (index-aligned to the pair index).
colors == <<"red", "yellow", "orange", "green", "blue", "purple", "white", "brown">>
sounds == <<"thunder2", "fart_z", "baby_x", "slide_whistle_x",
            "arrow2", "phone_pay", "bloop_x", "car_horn_x">>
\* Game.end: the colors of the end-of-game sweep, by slot.
end_colors == <<"red", "orange", "yellow", "green", "blue", "purple", "red", "orange",
                "yellow", "green", "blue", "purple", "red", "orange", "yellow", "green">>

\* ---- helpers ------------------------------------------------------------
Range(s) == {s[i] : i \in 1..Len(s)}

\* [lo, lo+1, ..., hi] as a list.
ListOf(lo, hi) == [i \in 1..(hi - lo + 1) |-> lo + i - 1]

\* list.remove(v): the list without the first occurrence of v.
Remove(s, v) ==
    IF \E i \in 1..Len(s) : s[i] = v
    THEN LET k == CHOOSE i \in 1..Len(s) : s[i] = v /\ \A j \in 1..(i - 1) : s[j] # v
         IN  [i \in 1..(Len(s) - 1) |-> IF i < k THEN s[i] ELSE s[i + 1]]
    ELSE s

\* Game._get_pair_index: the 0-based index of the first pair that holds the
\* button, NotFound when no pair does.
GetPairIndexBad(ps, b) ==
    IF \E i \in 1..Len(ps) : b = ps[i][1]
    THEN (CHOOSE i \in 1..Len(ps) : b = ps[i][1]) - 1
    ELSE IF \E i \in 1..Len(ps) : b = ps[i][2] THEN 0 ELSE NotFound
GetPairIndex(ps, b) ==
    IF \E i \in 1..Len(ps) : b \in Range(ps[i])
    THEN (CHOOSE i \in 1..Len(ps) :
             b \in Range(ps[i]) /\ \A j \in 1..(i - 1) : b \notin Range(ps[j])) - 1
    ELSE NotFound

VARIABLES
    \* Game's fields
    pairs,          \* self.pairs: list of [v1, v2]
    play_game,      \* self.play_game
    queue,          \* self.queue: the events put and not yet got
    selections,     \* self.selections
    leds,           \* the color last set on each slot's LED
    \* locals of create_pairs (main thread)
    numbers1, numbers2, v1, v2, cp_i,
    \* main thread
    mpc,            \* position of the main thread
    calls,          \* completed calls of create_pairs
    \* worker thread (_background_logic_checker)
    pc,             \* position of the worker
    button_number, pair_index, matched_pairs, total_pairs, sweep_i,
    \* what the run has done so far (not program state)
    trace,          \* commands of the selection round in progress or just ended
    matched0,       \* matched_pairs when the last event was got
    last_button,    \* slot of the last event got (0: none yet)
    prev_button,    \* slot of the event got before that one (0: none)
    matched_set,    \* the pair indices resolved as a match so far
    n_put,          \* when_pressed calls completed
    n_get,          \* queue.get calls completed
    last_seq,       \* ordinal of the put whose event the last get returned
    sounds_played,  \* play_preloaded_wav calls of the worker
    snap0,          \* buffer, sounds and count when the last event was got
    snap1,          \* the same when the event before that one was got
    same_run,       \* the last same_run events got are presses of last_button, the
                    \* first of them got on an empty buffer (0: no such run)
    late_gets,      \* queue.get calls completed with play_game already false
    \* the session: main thread's calls, Game objects made
    cue_sounds,     \* play_preloaded_wav calls of the main thread
    cleanups,       \* button_pad.cleanup() calls
    games,          \* Game objects constructed on the button pad
    old_pairs,      \* self.pairs of the Game before the last restart
    \* a notifier thread running Game.when_held
    hpc,            \* position of the hold handler
    h_button,       \* the button held
    h_i, h_j,       \* its loop indices
    hold_cmds,      \* LED and audio commands issued by the hold handler
    hold_trace,     \* the commands of the hold in progress or just ended
    holds           \* when_held calls started

gameVars == <<pairs, play_game, queue, selections, leds>>
cpVars == <<numbers1, numbers2, v1, v2, cp_i>>
mainVars == <<mpc, calls>>
workerVars == <<pc, button_number, pair_index, matched_pairs, total_pairs, sweep_i>>
histVars == <<matched0, last_button, prev_button, matched_set, snap0, snap1, same_run,
              late_gets>>
lifeVars == <<cue_sounds, cleanups, games, old_pairs>>
holdVars == <<hpc, h_button, h_i, h_j, hold_cmds, hold_trace, holds>>
ghostVars == <<trace, histVars, n_put, n_get, last_seq, sounds_played>>
vars == <<gameVars, cpVars, mainVars, workerVars, ghostVars, lifeVars, holdVars>>

\* What is recorded of the state at a get.
NoSnap == [sel |-> <<>>, sounds |-> 0, matched |-> 0, run |-> 0]
Snap ==
    [sel |-> selections, sounds |-> sounds_played, matched |-> matched_pairs,
     run |-> same_run]

\* ---- Game.__init__ --------------------------------------------------------
\* The state once Game(button_pad) has returned: no pairs, every LED black
\* (initialize_button_pad), no thread started.
Init ==
    /\ pairs = <<>>
    /\ play_game = TRUE
    /\ queue = <<>>
    /\ selections = <<>>
    /\ leds = [s \in Slots |-> "black"]
    /\ numbers1 = <<>> /\ numbers2 = <<>> /\ v1 = 0 /\ v2 = 0 /\ cp_i = 0
    /\ mpc = "init"
    /\ calls = 0
    /\ pc = "idle"
    /\ button_number = 0 /\ pair_index = NotFound
    /\ matched_pairs = 0 /\ total_pairs = 0 /\ sweep_i = 0
    /\ trace = <<>> /\ matched0 = 0
    /\ last_button = 0 /\ prev_button = 0 /\ matched_set = {}
    /\ n_put = 0 /\ n_get = 0 /\ last_seq = 0 /\ sounds_played = 0
    /\ snap0 = NoSnap /\ snap1 = NoSnap /\ same_run = 0 /\ late_gets = 0
    /\ cue_sounds = 0 /\ cleanups = 0 /\ games = 1 /\ old_pairs = <<>>
    /\ hpc = "idle" /\ h_button = 0 /\ h_i = 0 /\ h_j = 0
    /\ hold_cmds = 0 /\ hold_trace = <<>> /\ holds = 0

\* ---- Game.create_pairs (main thread) --------------------------------------
\* self.pairs = []; numbers1 = [1..8]; numbers2 = [9..16]
CreatePairsBeginBad ==
    /\ mpc \in {"init", "ready"}
    /\ calls < MaxCalls
    /\ numbers1' = ListOf(1, HalfSize)
    /\ numbers2' = ListOf(HalfSize + 1, NumSlots)
    /\ pairs' = pairs
    /\ cp_i' = 0 /\ v1' = 0 /\ v2' = 0
    /\ mpc' = "cp_v1"
    /\ UNCHANGED <<play_game, queue, selections, leds, calls, workerVars, ghostVars,
                   lifeVars, holdVars>>
CreatePairsBegin ==
    /\ mpc \in {"init", "ready"}
    /\ calls < MaxCalls
    /\ pairs' = <<>>
    /\ numbers1' = ListOf(1, HalfSize)
    /\ numbers2' = ListOf(HalfSize + 1, NumSlots)
    /\ cp_i' = 0 /\ v1' = 0 /\ v2' = 0
    /\ mpc' = "cp_v1"
    /\ UNCHANGED <<play_game, queue, selections, leds, calls, workerVars, ghostVars,
                   lifeVars, holdVars>>

\* for _ in range(8): v1 = random.choice(numbers1)   (or the loop ends)
CreatePairsChoice1 ==
    /\ mpc = "cp_v1"
    /\ IF cp_i < HalfSize
       THEN /\ \E k \in 1..Len(numbers1) : v1' = numbers1[k]
            /\ mpc' = "cp_v2"
            /\ UNCHANGED calls
       ELSE /\ mpc' = "ready"
            /\ calls' = calls + 1
            /\ UNCHANGED v1
    /\ UNCHANGED <<gameVars, numbers1, numbers2, v2, cp_i, workerVars, ghostVars,
                   lifeVars, holdVars>>

\* v2 = random.choice(numbers2)
CreatePairsChoice2Bad ==
    /\ mpc = "cp_v2"
    /\ \E k \in 1..Len(numbers1) : v2' = numbers1[k]
    /\ mpc' = "cp_append"
    /\ UNCHANGED <<gameVars, numbers1, numbers2, v1, cp_i, calls, workerVars, ghostVars,
                   lifeVars, holdVars>>
CreatePairsChoice2 ==
    /\ mpc = "cp_v2"
    /\ \E k \in 1..Len(numbers2) : v2' = numbers2[k]
    /\ mpc' = "cp_append"
    /\ UNCHANGED <<gameVars, numbers1, numbers2, v1, cp_i, calls, workerVars, ghostVars,
                   lifeVars, holdVars>>

\* self.pairs.append([v1, v2])
CreatePairsAppend ==
    /\ mpc = "cp_append"
    /\ pairs' = Append(pairs, <<v1, v2>>)
    /\ mpc' = "cp_remove"
    /\ UNCHANGED <<play_game, queue, selections, leds, cpVars, calls, workerVars, ghostVars,
                   lifeVars, holdVars>>

\* numbers1.remove(v1); numbers2.remove(v2); next iteration
CreatePairsRemove ==
    /\ mpc = "cp_remove"
    /\ numbers1' = Remove(numbers1, v1)
    /\ numbers2' = Remove(numbers2, v2)
    /\ cp_i' = cp_i + 1
    /\ mpc' = "cp_v1"
    /\ UNCHANGED <<gameVars, v1, v2, calls, workerVars, ghostVars,
                   lifeVars, holdVars>>

CreatePairs ==
    \/ CreatePairsBegin
    \/ CreatePairsChoice1
    \/ CreatePairsChoice2
    \/ CreatePairsAppend
    \/ CreatePairsRemove

\* ---- the event queue (queue.Queue) -----------------------------------------
\* An event is the pressed slot together with the ordinal of its put call.
Event(s, k) == [slot |-> s, seq |-> k]

\* Queue.put: the event joins the back of the queue.
QueuePut(q, e) == Append(q, e)

\* Queue.get: the event it returns, and the queue it leaves.
QueueFrontBad(q) == q[Len(q)]
QueueFront(q) == Head(q)
QueueRest(q) == Tail(q)

\* ---- commands issued to the button pad and the speaker --------------------
LedCmd(s, c) == <<"led", s, c>>
PlayCmd(name) == <<"play", 0, name>>
SleepCmd(d) == <<"sleep", 0, d>>

\* ---- Game.when_pressed (a notifier thread) --------------------------------
WhenPressed ==
    /\ mpc # "exited"
    /\ n_put < MaxPresses
    /\ Len(queue) < MaxQueue
    /\ \E s \in Slots : queue' = QueuePut(queue, Event(s, n_put + 1))
    /\ n_put' = n_put + 1
    /\ UNCHANGED <<pairs, play_game, selections, leds, cpVars, mainVars, workerVars,
                   trace, histVars, n_get, last_seq, sounds_played,
                   lifeVars, holdVars>>

\* ---- Game.play / Game._start_game (main thread) ---------------------------
\* _main calls create_pairs once before play; the test harness calls play on
\* a Game whose create_pairs never ran.
MainCreatePairs == calls = 0 /\ CreatePairs

\* _start_game: the worker thread is created and started.
StartGame ==
    /\ mpc \in {"init", "ready"}
    /\ pc = "idle"
    /\ pc' = "start"
    /\ mpc' = "cue"
    /\ UNCHANGED <<gameVars, cpVars, calls, button_number, pair_index, matched_pairs,
                   total_pairs, sweep_i, ghostVars,
                   lifeVars, holdVars>>

\* (variant) the start cue is played twice.
StartCueBad ==
    /\ mpc = "cue"
    /\ cue_sounds' = cue_sounds + 2
    /\ mpc' = "input"
    /\ UNCHANGED <<gameVars, cpVars, calls, workerVars, ghostVars, cleanups, games,
                   old_pairs, holdVars>>

\* _start_game: the start cue ("arrow2") is played on the main thread.
StartCue ==
    /\ mpc = "cue"
    /\ cue_sounds' = cue_sounds + 1
    /\ mpc' = "input"
    /\ UNCHANGED <<gameVars, cpVars, calls, workerVars, ghostVars, cleanups, games,
                   old_pairs, holdVars>>

\* (variant) the exit leaves the liveness flag set.
ExitSignalBad ==
    /\ mpc = "input"
    /\ mpc' = "join"
    /\ UNCHANGED <<gameVars, cpVars, calls, workerVars, ghostVars, lifeVars, holdVars>>

\* play: input() returns or is interrupted; finally: self.play_game = False
ExitSignal ==
    /\ mpc = "input"
    /\ play_game' = FALSE
    /\ mpc' = "join"
    /\ UNCHANGED <<pairs, queue, selections, leds, cpVars, calls, workerVars, ghostVars,
                   lifeVars, holdVars>>

\* The worker thread has ended: it left its loop, or an exception ended it.
WorkerEnded == pc \in {"done", "crashed", "failed"}

\* play: self.thread.join() returns once the worker thread has ended.
JoinWorker ==
    /\ mpc = "join"
    /\ WorkerEnded
    /\ mpc' = "cleanup"
    /\ UNCHANGED <<gameVars, cpVars, calls, workerVars, ghostVars, lifeVars, holdVars>>

\* What the driver does with a callback that is still running when cleanup
\* is called: callbacks run on driver-owned threads, asynchronously to the
\* core, and cleanup releases the driver's resources; it waits for none.
CleanupWaitsForCallbacks == FALSE
\* The driver invokes callbacks until its resources are released.
DriverOpen == cleanups = 0

\* play: self.button_pad.cleanup(); play returns.
Cleanup ==
    /\ mpc = "cleanup"
    /\ CleanupWaitsForCallbacks => hpc = "idle"
    /\ cleanups' = cleanups + 1
    /\ mpc' = "exited"
    /\ UNCHANGED <<gameVars, cpVars, calls, workerVars, ghostVars, cue_sounds, games,
                   old_pairs, holdVars>>

\* ---- Game._background_logic_checker (worker thread) -----------------------
\* The jump back to the head of the while loop; the locals of the iteration
\* are dead from here on.
BackToLoop ==
    /\ pc' = "loop"
    /\ button_number' = 0
    /\ pair_index' = NotFound

\* matched_pairs = 0; total_pairs = len(self.pairs)
WorkerStart ==
    /\ pc = "start"
    /\ matched_pairs' = 0
    /\ total_pairs' = Len(pairs)
    /\ pc' = "loop"
    /\ UNCHANGED <<gameVars, cpVars, mainVars, button_number, pair_index, sweep_i,
                   ghostVars,
                   lifeVars, holdVars>>

\* while self.play_game: time.sleep(0.005)
\* (variant) the loop is left only once the queue has been drained.
LoopTestBad ==
    /\ pc = "loop"
    /\ pc' = IF play_game \/ queue # <<>> THEN "poll" ELSE "done"
    /\ trace' = IF selections = <<>> THEN <<>> ELSE trace
    /\ UNCHANGED <<gameVars, cpVars, mainVars, button_number, pair_index, matched_pairs,
                   total_pairs, sweep_i, histVars, n_put, n_get, last_seq, sounds_played,
                   lifeVars, holdVars>>

LoopTest ==
    /\ pc = "loop"
    /\ pc' = IF play_game THEN "poll" ELSE "done"
    /\ trace' = IF selections = <<>> THEN <<>> ELSE trace
    /\ UNCHANGED <<gameVars, cpVars, mainVars, button_number, pair_index, matched_pairs,
                   total_pairs, sweep_i, histVars, n_put, n_get, last_seq, sounds_played,
                   lifeVars, holdVars>>

\* (variant) the worker takes an event only when two are waiting.
PollQueueBad ==
    /\ pc = "poll"
    /\ pc' = IF Len(queue) <= 1 THEN "loop" ELSE "get"
    /\ UNCHANGED <<gameVars, cpVars, mainVars, button_number, pair_index, matched_pairs,
                   total_pairs, sweep_i, ghostVars,
                   lifeVars, holdVars>>

\* (variant) the worker calls get without looking whether an event waits.
PollQueueBlindBad ==
    /\ pc = "poll"
    /\ pc' = "get"
    /\ UNCHANGED <<gameVars, cpVars, mainVars, button_number, pair_index, matched_pairs,
                   total_pairs, sweep_i, ghostVars,
                   lifeVars, holdVars>>

\* if self.queue.empty(): continue
PollQueue ==
    /\ pc = "poll"
    /\ pc' = IF queue = <<>> THEN "loop" ELSE "get"
    /\ UNCHANGED <<gameVars, cpVars, mainVars, button_number, pair_index, matched_pairs,
                   total_pairs, sweep_i, ghostVars,
                   lifeVars, holdVars>>

\* button_number = self.queue.get()
GetEvent ==
    /\ pc = "get"
    /\ queue # <<>>
    /\ button_number' = QueueFront(queue).slot
    /\ last_seq' = QueueFront(queue).seq
    /\ queue' = QueueRest(queue)
    /\ n_get' = n_get + 1
    /\ matched0' = matched_pairs
    /\ last_button' = QueueFront(queue).slot
    /\ prev_button' = last_button
    /\ snap0' = Snap /\ snap1' = snap0
    /\ same_run' = (IF same_run > 0 /\ QueueFront(queue).slot = last_button
                    THEN same_run + 1
                    ELSE IF selections = <<>> THEN 1 ELSE 0)
    /\ late_gets' = (IF play_game THEN late_gets ELSE late_gets + 1)
    /\ pc' = "lookup"
    /\ UNCHANGED <<pairs, play_game, selections, leds, cpVars, mainVars, pair_index,
                   matched_pairs, total_pairs, sweep_i, trace, matched_set, n_put,
                   sounds_played,
                   lifeVars, holdVars>>

\* (variant) a slot that no pair holds is handled as a slot of the first pair.
LookupUnknownBad ==
    /\ pc = "lookup"
    /\ pair_index' = (IF GetPairIndex(pairs, button_number) = NotFound
                      THEN 0 ELSE GetPairIndex(pairs, button_number))
    /\ pc' = "led"
    /\ UNCHANGED button_number
    /\ UNCHANGED <<gameVars, cpVars, mainVars, matched_pairs, total_pairs, sweep_i,
                   ghostVars,
                   lifeVars, holdVars>>

\* (variant) a press of a slot whose pair is already matched is ignored.
LookupBad ==
    /\ pc = "lookup"
    /\ IF \/ GetPairIndex(pairs, button_number) = NotFound
          \/ GetPairIndex(pairs, button_number) \in matched_set
       THEN BackToLoop
       ELSE /\ pair_index' = GetPairIndex(pairs, button_number)
            /\ pc' = "led"
            /\ UNCHANGED button_number
    /\ UNCHANGED <<gameVars, cpVars, mainVars, matched_pairs, total_pairs, sweep_i,
                   ghostVars,
                   lifeVars, holdVars>>

\* pair_index = self._get_pair_index(button_number); if pair_index == -1: continue
Lookup ==
    /\ pc = "lookup"
    /\ IF GetPairIndex(pairs, button_number) = NotFound
       THEN BackToLoop
       ELSE /\ pair_index' = GetPairIndex(pairs, button_number)
            /\ pc' = "led"
            /\ UNCHANGED button_number
    /\ UNCHANGED <<gameVars, cpVars, mainVars, matched_pairs, total_pairs, sweep_i,
                   ghostVars,
                   lifeVars, holdVars>>

\* (variant) a press of a slot whose pair is already matched turns its LED off.
FeedbackLedBad ==
    /\ pc = "led"
    /\ leds' = [leds EXCEPT ![button_number] =
                   IF pair_index \in matched_set THEN "black" ELSE colors[pair_index + 1]]
    /\ trace' = Append(trace, LedCmd(button_number, colors[pair_index + 1]))
    /\ pc' = "sound"
    /\ UNCHANGED <<pairs, play_game, queue, selections, cpVars, mainVars, button_number,
                   pair_index, matched_pairs, total_pairs, sweep_i, histVars, n_put,
                   n_get, last_seq, sounds_played,
                   lifeVars, holdVars>>

\* self.button_pad.set_button_led_color(get_button(button_number), self.colors[pair_index])
FeedbackLed ==
    /\ pc = "led"
    /\ leds' = [leds EXCEPT ![button_number] = colors[pair_index + 1]]
    /\ trace' = Append(trace, LedCmd(button_number, colors[pair_index + 1]))
    /\ pc' = "sound"
    /\ UNCHANGED <<pairs, play_game, queue, selections, cpVars, mainVars, button_number,
                   pair_index, matched_pairs, total_pairs, sweep_i, histVars, n_put,
                   n_get, last_seq, sounds_played,
                   lifeVars, holdVars>>

\* self.speaker.play_preloaded_wav(self.sounds[pair_index], wait_until_done=True)
FeedbackSound ==
    /\ pc = "sound"
    /\ trace' = Append(trace, PlayCmd(sounds[pair_index + 1]))
    /\ sounds_played' = sounds_played + 1
    /\ pc' = "append"
    /\ UNCHANGED <<gameVars, cpVars, mainVars, button_number, pair_index, matched_pairs,
                   total_pairs, sweep_i, histVars, n_put, n_get, last_seq,
                   lifeVars, holdVars>>

\* (variant) a slot of a pair already matched is not buffered.
AppendSelectionBad ==
    /\ pc = "append"
    /\ IF pair_index \in matched_set
       THEN /\ BackToLoop
            /\ UNCHANGED selections
       ELSE /\ selections' = Append(selections, button_number)
            /\ pc' = "check"
            /\ UNCHANGED <<button_number, pair_index>>
    /\ UNCHANGED <<pairs, play_game, queue, leds, cpVars, mainVars, matched_pairs,
                   total_pairs, sweep_i, ghostVars,
                   lifeVars, holdVars>>

\* self.selections.append(button_number)
AppendSelection ==
    /\ pc = "append"
    /\ selections' = Append(selections, button_number)
    /\ pc' = "check"
    /\ UNCHANGED <<pairs, play_game, queue, leds, cpVars, mainVars, button_number,
                   pair_index, matched_pairs, total_pairs, sweep_i, ghostVars,
                   lifeVars, holdVars>>

\* if len(self.selections) == 2: ... the three outcomes of a resolution
\* (same button: discard; same pair: match; else: mismatch)
IsSelfPressBad(sel) == FALSE
IsSelfPress(sel) == sel[1] = sel[2]
IsMatchBad(ps, sel) == sel[1] = sel[2]
IsMatch(ps, sel) == GetPairIndex(ps, sel[1]) = GetPairIndex(ps, sel[2])

\* (variant) the discard of a self-press keeps the slot once in the buffer.
CheckSelectionsKeepBad ==
    /\ pc = "check"
    /\ IF Len(selections) = 2
       THEN IF IsSelfPress(selections)
            THEN /\ selections' = <<selections[1]>>
                 /\ BackToLoop
            ELSE /\ pc' = IF IsMatch(pairs, selections) THEN "correct" ELSE "incorrect"
                 /\ UNCHANGED <<selections, button_number, pair_index>>
       ELSE /\ BackToLoop
            /\ UNCHANGED selections
    /\ UNCHANGED <<pairs, play_game, queue, leds, cpVars, mainVars, matched_pairs,
                   total_pairs, sweep_i, ghostVars,
                   lifeVars, holdVars>>

\* (variant) a buffer holding one slot twice is left as it is.
CheckSelectionsBad ==
    /\ pc = "check"
    /\ IF Len(selections) = 2
       THEN IF IsSelfPress(selections)
            THEN /\ BackToLoop
                 /\ UNCHANGED selections
            ELSE /\ pc' = IF IsMatch(pairs, selections) THEN "correct" ELSE "incorrect"
                 /\ UNCHANGED <<selections, button_number, pair_index>>
       ELSE /\ BackToLoop
            /\ UNCHANGED selections
    /\ UNCHANGED <<pairs, play_game, queue, leds, cpVars, mainVars, matched_pairs,
                   total_pairs, sweep_i, ghostVars,
                   lifeVars, holdVars>>

CheckSelections ==
    /\ pc = "check"
    /\ IF Len(selections) = 2
       THEN IF IsSelfPress(selections)
            THEN /\ selections' = <<>>
                 /\ BackToLoop
            ELSE /\ pc' = IF IsMatch(pairs, selections) THEN "correct" ELSE "incorrect"
                 /\ UNCHANGED <<selections, button_number, pair_index>>
       ELSE /\ BackToLoop
            /\ UNCHANGED selections
    /\ UNCHANGED <<pairs, play_game, queue, leds, cpVars, mainVars, matched_pairs,
                   total_pairs, sweep_i, ghostVars,
                   lifeVars, holdVars>>

\* (variant) the match is announced but not counted.
CorrectMatchBad ==
    /\ pc = "correct"
    /\ trace' = Append(trace, PlayCmd("correct_answer"))
    /\ sounds_played' = sounds_played + 1
    /\ matched_set' = matched_set \cup {GetPairIndex(pairs, selections[1])}
    /\ pc' = "clear"
    /\ UNCHANGED <<gameVars, cpVars, mainVars, button_number, pair_index, matched_pairs,
                   total_pairs, sweep_i, matched0, last_button, prev_button, snap0, snap1,
                   same_run, late_gets,
                   n_put, n_get, last_seq,
                   lifeVars, holdVars>>

\* self.correct_sound (the property plays "correct_answer"); matched_pairs += 1
CorrectMatch ==
    /\ pc = "correct"
    /\ trace' = Append(trace, PlayCmd("correct_answer"))
    /\ sounds_played' = sounds_played + 1
    /\ matched_pairs' = matched_pairs + 1
    /\ matched_set' = matched_set \cup {GetPairIndex(pairs, selections[1])}
    /\ pc' = "clear"
    /\ UNCHANGED <<gameVars, cpVars, mainVars, button_number, pair_index, total_pairs,
                   sweep_i, matched0, last_button, prev_button, snap0, snap1, same_run,
                   late_gets, n_put, n_get,
                   last_seq,
                   lifeVars, holdVars>>

\* (variant) after the "incorrect" sound the worker goes straight back to its
\* loop: no delay, no LED turned off, the buffer left as it is.
WrongMatchBad ==
    /\ pc = "incorrect"
    /\ trace' = Append(trace, PlayCmd("incorrect"))
    /\ sounds_played' = sounds_played + 1
    /\ BackToLoop
    /\ UNCHANGED <<gameVars, cpVars, mainVars, matched_pairs,
                   total_pairs, sweep_i, histVars, n_put, n_get, last_seq,
                   lifeVars, holdVars>>

\* self.incorrect_sound (the property plays "incorrect")
WrongMatch ==
    /\ pc = "incorrect"
    /\ trace' = Append(trace, PlayCmd("incorrect"))
    /\ sounds_played' = sounds_played + 1
    /\ pc' = "delay"
    /\ UNCHANGED <<gameVars, cpVars, mainVars, button_number, pair_index, matched_pairs,
                   total_pairs, sweep_i, histVars, n_put, n_get, last_seq,
                   lifeVars, holdVars>>

\* (variant) the delay of a mismatch is cut short by a shutdown request: the
\* worker ends there, the LEDs left lit and the buffer full.
WrongDelayBad ==
    /\ pc = "delay"
    /\ trace' = Append(trace, SleepCmd("0.5"))
    /\ pc' = IF play_game THEN "off_first" ELSE "done"
    /\ UNCHANGED <<gameVars, cpVars, mainVars, button_number, pair_index, matched_pairs,
                   total_pairs, sweep_i, histVars, n_put, n_get, last_seq, sounds_played,
                   lifeVars, holdVars>>

\* time.sleep(0.5)
WrongDelay ==
    /\ pc = "delay"
    /\ trace' = Append(trace, SleepCmd("0.5"))
    /\ pc' = "off_first"
    /\ UNCHANGED <<gameVars, cpVars, mainVars, button_number, pair_index, matched_pairs,
                   total_pairs, sweep_i, histVars, n_put, n_get, last_seq, sounds_played,
                   lifeVars, holdVars>>

\* (variant) the first turn-off of a mismatch clears the whole pad.
WrongOffFirstBad ==
    /\ pc = "off_first"
    /\ leds' = [s \in Slots |-> "black"]
    /\ trace' = Append(trace, LedCmd(selections[1], "black"))
    /\ pc' = "off_second"
    /\ UNCHANGED <<pairs, play_game, queue, selections, cpVars, mainVars, button_number,
                   pair_index, matched_pairs, total_pairs, sweep_i, histVars, n_put,
                   n_get, last_seq, sounds_played,
                   lifeVars, holdVars>>

\* set_button_led_color(get_button(first), "black")
WrongOffFirst ==
    /\ pc = "off_first"
    /\ leds' = [leds EXCEPT ![selections[1]] = "black"]
    /\ trace' = Append(trace, LedCmd(selections[1], "black"))
    /\ pc' = "off_second"
    /\ UNCHANGED <<pairs, play_game, queue, selections, cpVars, mainVars, button_number,
                   pair_index, matched_pairs, total_pairs, sweep_i, histVars, n_put,
                   n_get, last_seq, sounds_played,
                   lifeVars, holdVars>>

\* set_button_led_color(get_button(second), "black")
WrongOffSecondBad ==
    /\ pc = "off_second"
    /\ leds' = [leds EXCEPT ![selections[1]] = "black"]
    /\ trace' = Append(trace, LedCmd(selections[1], "black"))
    /\ pc' = "clear"
    /\ UNCHANGED <<pairs, play_game, queue, selections, cpVars, mainVars, button_number,
                   pair_index, matched_pairs, total_pairs, sweep_i, histVars, n_put,
                   n_get, last_seq, sounds_played,
                   lifeVars, holdVars>>
WrongOffSecond ==
    /\ pc = "off_second"
    /\ leds' = [leds EXCEPT ![selections[2]] = "black"]
    /\ trace' = Append(trace, LedCmd(selections[2], "black"))
    /\ pc' = "clear"
    /\ UNCHANGED <<pairs, play_game, queue, selections, cpVars, mainVars, button_number,
                   pair_index, matched_pairs, total_pairs, sweep_i, histVars, n_put,
                   n_get, last_seq, sounds_played,
                   lifeVars, holdVars>>

\* (variant) after a mismatch the second slot stays in the buffer.
ClearSelectionsBad ==
    /\ pc = "clear"
    /\ selections' = (IF IsMatch(pairs, selections) THEN <<>> ELSE <<selections[2]>>)
    /\ IF matched_pairs = total_pairs
       THEN /\ pc' = "end"
            /\ sweep_i' = 1
            /\ UNCHANGED <<button_number, pair_index>>
       ELSE /\ BackToLoop
            /\ UNCHANGED sweep_i
    /\ UNCHANGED <<pairs, play_game, queue, leds, cpVars, mainVars, matched_pairs,
                   total_pairs, ghostVars, lifeVars, holdVars>>

\* (variant) the game ends as soon as one pair has been matched.
ClearSelectionsEarlyBad ==
    /\ pc = "clear"
    /\ selections' = <<>>
    /\ IF matched_pairs >= 1
       THEN /\ pc' = "end"
            /\ sweep_i' = 1
            /\ UNCHANGED <<button_number, pair_index>>
       ELSE /\ BackToLoop
            /\ UNCHANGED sweep_i
    /\ UNCHANGED <<pairs, play_game, queue, leds, cpVars, mainVars, matched_pairs,
                   total_pairs, ghostVars,
                   lifeVars, holdVars>>

\* self.selections = []; if matched_pairs == total_pairs: self.end(); break
ClearSelections ==
    /\ pc = "clear"
    /\ selections' = <<>>
    /\ IF matched_pairs = total_pairs
       THEN /\ pc' = "end"
            /\ sweep_i' = 1
            /\ UNCHANGED <<button_number, pair_index>>
       ELSE /\ BackToLoop
            /\ UNCHANGED sweep_i
    /\ UNCHANGED <<pairs, play_game, queue, leds, cpVars, mainVars, matched_pairs,
                   total_pairs, ghostVars,
                   lifeVars, holdVars>>

\* Game.end: for i in range(1, 17): set_button_led_color(get_button(i), colors[i - 1]);
\* time.sleep(0.1)
EndSweep ==
    /\ pc = "end"
    /\ IF sweep_i <= NumSlots
       THEN /\ leds' = [leds EXCEPT ![sweep_i] = end_colors[sweep_i]]
            /\ trace' = Append(trace, LedCmd(sweep_i, end_colors[sweep_i]))
            /\ sweep_i' = sweep_i + 1
            /\ UNCHANGED pc
       ELSE /\ pc' = "end_sound"
            /\ UNCHANGED <<leds, trace, sweep_i>>
    /\ UNCHANGED <<pairs, play_game, queue, selections, cpVars, mainVars, button_number,
                   pair_index, matched_pairs, total_pairs, histVars, n_put, n_get,
                   last_seq, sounds_played,
                   lifeVars, holdVars>>

\* (variant) the worker goes back to its loop after the end of the game.
EndSoundBad ==
    /\ pc = "end_sound"
    /\ trace' = Append(trace, PlayCmd("end_of_game"))
    /\ sounds_played' = sounds_played + 1
    /\ pc' = "loop"
    /\ UNCHANGED <<gameVars, cpVars, mainVars, button_number, pair_index, matched_pairs,
                   total_pairs, sweep_i, histVars, n_put, n_get, last_seq,
                   lifeVars, holdVars>>

\* Game.end: self.end_of_game_sound() -- reading the property plays
\* "end_of_game" and yields the str "end_of_game"; calling that str raises
\* TypeError, which nothing catches: the worker thread ends there.
EndSound ==
    /\ pc = "end_sound"
    /\ trace' = Append(trace, PlayCmd("end_of_game"))
    /\ sounds_played' = sounds_played + 1
    /\ pc' = "crashed"
    /\ UNCHANGED <<gameVars, cpVars, mainVars, button_number, pair_index, matched_pairs,
                   total_pairs, sweep_i, histVars, n_put, n_get, last_seq,
                   lifeVars, holdVars>>

\* ---- Game.when_held (a notifier thread) -----------------------------------
\* when_held(button): button 1 -> reset cue and clear; button 2 -> reveal;
\* any other button -> nothing.
HoldStart ==
    /\ hpc = "idle"
    /\ DriverOpen
    /\ holds < MaxHolds
    /\ holds' = holds + 1
    /\ \E b \in Slots :
         /\ h_button' = b
         /\ hpc' = (IF b = 1 THEN "h_bell" ELSE IF b = 2 THEN "h_sound" ELSE "idle")
    /\ h_i' = 0 /\ h_j' = 0
    /\ hold_trace' = <<>>
    /\ UNCHANGED <<gameVars, cpVars, mainVars, workerVars, ghostVars, lifeVars, hold_cmds>>

\* (variant) the reset of a hold of slot 1 also empties the buffer.
HoldBellBad ==
    /\ hpc = "h_bell"
    /\ hold_cmds' = hold_cmds + 1
    /\ hold_trace' = Append(hold_trace, PlayCmd("doorbell_x"))
    /\ selections' = <<>>
    /\ hpc' = "h_clear"
    /\ h_i' = 1
    /\ UNCHANGED <<pairs, play_game, queue, leds, cpVars, mainVars, workerVars, ghostVars,
                   lifeVars, h_button, h_j, holds>>

\* button 1: self.speaker.play_preloaded_wav("doorbell_x", wait_until_done=True)
HoldBell ==
    /\ hpc = "h_bell"
    /\ hold_cmds' = hold_cmds + 1
    /\ hold_trace' = Append(hold_trace, PlayCmd("doorbell_x"))
    /\ hpc' = "h_clear"
    /\ h_i' = 1
    /\ UNCHANGED <<gameVars, cpVars, mainVars, workerVars, ghostVars, lifeVars, h_button,
                   h_j, holds>>

\* button 1: self.button_pad.clear_button_pad(): every LED is set to "black",
\* one button after the other.
HoldClear ==
    /\ hpc = "h_clear"
    /\ leds' = [leds EXCEPT ![h_i] = "black"]
    /\ hold_cmds' = hold_cmds + 1
    /\ hold_trace' = Append(hold_trace, LedCmd(h_i, "black"))
    /\ IF h_i < NumSlots
       THEN h_i' = h_i + 1 /\ UNCHANGED hpc
       ELSE h_i' = 0 /\ hpc' = "idle"
    /\ UNCHANGED <<pairs, play_game, queue, selections, cpVars, mainVars, workerVars,
                   ghostVars, lifeVars, h_button, h_j, holds>>

\* button 2: for i in range(8): for j in range(2): value = self.pairs[i][j]
\* (IndexError when the pairing has no pair i: the callback ends there);
\* play_preloaded_wav(self.sounds[i], wait_until_done=True)
HoldSound ==
    /\ hpc = "h_sound"
    /\ IF h_i + 1 <= Len(pairs)
       THEN /\ hold_cmds' = hold_cmds + 1
            /\ hold_trace' = Append(hold_trace, PlayCmd(sounds[h_i + 1]))
            /\ hpc' = "h_led"
            /\ UNCHANGED <<h_i, h_j>>
       ELSE /\ hpc' = "idle"
            /\ h_i' = 0 /\ h_j' = 0
            /\ UNCHANGED <<hold_cmds, hold_trace>>
    /\ UNCHANGED <<gameVars, cpVars, mainVars, workerVars, ghostVars, lifeVars, h_button,
                   holds>>

\* button 2: set_button_led_color(btn, self.colors[i]); next j, next i.  The
\* value was read before the sound; the pairing is read here as it is now
\* only to find the slot, which create_pairs never changes once appended.
HoldLed ==
    /\ hpc = "h_led"
    /\ IF h_i + 1 <= Len(pairs)
       THEN /\ leds' = [leds EXCEPT ![pairs[h_i + 1][h_j + 1]] = colors[h_i + 1]]
            /\ hold_trace' = Append(hold_trace,
                                    LedCmd(pairs[h_i + 1][h_j + 1], colors[h_i + 1]))
       ELSE UNCHANGED <<leds, hold_trace>>
    /\ hold_cmds' = hold_cmds + 1
    /\ IF h_j = 0
       THEN h_j' = 1 /\ UNCHANGED h_i /\ hpc' = "h_sound"
       ELSE IF h_i + 1 < HalfSize
            THEN h_j' = 0 /\ h_i' = h_i + 1 /\ hpc' = "h_sound"
            ELSE h_j' = 0 /\ h_i' = 0 /\ hpc' = "idle"
    /\ UNCHANGED <<pairs, play_game, queue, selections, cpVars, mainVars, workerVars,
                   ghostVars, lifeVars, h_button, holds>>

WhenHeld ==
    \/ HoldStart
    \/ HoldBell
    \/ HoldClear
    \/ HoldSound
    \/ HoldLed

\* ---- a hardware call that raises ------------------------------------------
\* The positions at which the worker is about to make an LED or audio call.
HardwareCalls ==
    {"led", "sound", "correct", "incorrect", "off_first", "off_second", "end", "end_sound"}

\* set_button_led_color or play_preloaded_wav raises: nothing in
\* _background_logic_checker catches it, the call has no effect and the
\* worker thread ends with the exception.
HardwareFailure ==
    /\ pc \in HardwareCalls
    /\ pc' = "failed"
    /\ UNCHANGED <<gameVars, cpVars, mainVars, button_number, pair_index, matched_pairs,
                   total_pairs, sweep_i, ghostVars, lifeVars, holdVars>>

Worker ==
    \/ WorkerStart
    \/ LoopTest
    \/ PollQueue
    \/ GetEvent
    \/ Lookup
    \/ FeedbackLed
    \/ FeedbackSound
    \/ AppendSelection
    \/ CheckSelections
    \/ CorrectMatch
    \/ WrongMatch
    \/ WrongDelay
    \/ WrongOffFirst
    \/ WrongOffSecond
    \/ ClearSelections
    \/ EndSweep
    \/ EndSound

Main ==
    \/ MainCreatePairs
    \/ StartGame
    \/ StartCue
    \/ ExitSignal
    \/ JoinWorker
    \/ Cleanup

Next == Main \/ Worker \/ WhenPressed
Spec == Init /\ [][Next]_vars

\* The scheduler lets the worker thread run, and lets the main thread go on
\* once join can return; the exit signal and the presses come from outside
\* and are not forced.
SpecFair ==
    Spec /\ WF_vars(Worker) /\ WF_vars(JoinWorker) /\ WF_vars(Cleanup)

\* ---- restart (src/__tests__/conftest.py) -----------------------------------
\* _restart: done = True ends input(); game_thread.join() returns once play
\* has returned; then a new Game is made on the same button pad (__init__:
\* play_game True, a new empty queue, selections [], pairs [], every LED
\* black) and play is called on it later.  Nothing of the old Game is kept.
Restart ==
    /\ mpc = "exited"
    /\ games < MaxGames
    /\ games' = games + 1
    /\ old_pairs' = pairs
    /\ pairs' = <<>>
    /\ play_game' = TRUE
    /\ queue' = <<>>
    /\ selections' = <<>>
    /\ leds' = [s \in Slots |-> "black"]
    /\ numbers1' = <<>> /\ numbers2' = <<>> /\ v1' = 0 /\ v2' = 0 /\ cp_i' = 0
    /\ mpc' = "init"
    /\ calls' = 0
    /\ pc' = "idle"
    /\ button_number' = 0 /\ pair_index' = NotFound
    /\ trace' = <<>> /\ matched0' = 0
    /\ last_button' = 0 /\ prev_button' = 0 /\ matched_set' = {}
    /\ n_put' = 0 /\ n_get' = 0 /\ last_seq' = 0 /\ sounds_played' = 0
    /\ snap0' = NoSnap /\ snap1' = NoSnap /\ same_run' = 0 /\ late_gets' = 0
    /\ UNCHANGED <<matched_pairs, total_pairs, sweep_i, cue_sounds, cleanups, holdVars>>

\* Games played one after the other on one button pad.
NextRestart == Next \/ Restart
SpecRestart == Init /\ [][NextRestart]_vars

\* The game with buttons held as well as pressed (fewer presses, to make
\* room for the hold handler's interleavings).
NextHold == (Next /\ n_put' <= HoldPresses) \/ WhenHeld
SpecHold == Init /\ [][NextHold]_vars

\* The game on hardware whose calls may raise.
NextFail == Next \/ HardwareFailure
SpecFail == Init /\ [][NextFail]_vars

\* create_pairs called again and again on one Game.
NextPairs == CreatePairs
SpecPairs == Init /\ [][NextPairs]_vars


\* ---- what the spec says of the pairing, read off the data -----------------
\* Both slots lie in one pair of the pairing.
SamePair(a, b) == \E i \in 1..Len(pairs) : a \in Range(pairs[i]) /\ b \in Range(pairs[i])
\* The slot lies in some pair of the pairing.
InSomePair(s) == \E i \in 1..Len(pairs) : s \in Range(pairs[i])
\* The pairing is a partition of the slots into pairs across the two halves.
WellFormed(ps) ==
    /\ Len(ps) = HalfSize
    /\ \A i \in 1..Len(ps) : Len(ps[i]) = 2 /\ ps[i][1] \in LowHalf /\ ps[i][2] \in HighHalf
    /\ \A s \in Slots : Cardinality({i \in 1..Len(ps) : s \in Range(ps[i])}) = 1

\* ---- C1 -------------------------------------------------------------------
\* C1: the worker gets the events in the order in which the put calls
\* completed: the k-th get returns the event of the k-th put, and the events
\* still waiting are exactly the puts after it, in put order (none dropped,
\* none repeated, none reordered, none merged).
C1_FifoDelivery ==
    /\ n_get + Len(queue) = n_put
    /\ \A i \in 1..Len(queue) : queue[i].seq = n_get + i
    /\ last_seq = n_get
    /\ pc = "lookup" => button_number = last_button /\ button_number \in Slots

\* C1 witness: the worker has got two events while two later ones wait.
C1_Witness == pc = "lookup" /\ n_get = 2 /\ Len(queue) = 2 /\ queue[1].slot # queue[2].slot

\* ---- what the spec says of a press, read off the pairing -------------------
\* The pair index of the pair that holds the slot, as a position of the tables.
PairIndexOf(s) == CHOOSE i \in 1..Len(pairs) : s \in Range(pairs[i])
SpecColor(s) == colors[PairIndexOf(s)]
SpecSound(s) == sounds[PairIndexOf(s)]
\* The feedback of one press: the LED is lit, then the sound is played.
FeedbackOf(s) == <<LedCmd(s, SpecColor(s)), PlayCmd(SpecSound(s))>>
\* The worker is back at the head of its loop right after a round of two
\* selections was resolved; the round was prev_button, then last_button.
RoundEnded == pc = "loop" /\ selections = <<>> /\ trace # <<>>
Resolving == {"check", "correct", "incorrect", "delay", "off_first", "off_second", "clear"}
Waiting == {"loop", "poll", "get", "done"}

\* ---- C2 -------------------------------------------------------------------
\* The buffer holds the two slots of one pair.
PairPressed ==
    /\ Len(selections) = 2
    /\ selections[1] # selections[2]
    /\ SamePair(selections[1], selections[2])

\* C2 as stated: in any state before GameOver, the two slots of one pair got
\* one right after the other are resolved as a match.
C2_AnyState ==
    (prev_button # 0 /\ prev_button # last_button /\ SamePair(prev_button, last_button))
    => /\ pc \notin {"incorrect", "delay", "off_first", "off_second"}
       /\ pc = "check" => selections = <<prev_button, last_button>>
       /\ pc \in {"clear"} \cup Waiting => matched_pairs = matched0 + 1

\* C2 as amended: when the Selection Buffer is empty as the first of the two
\* presses is got, the two slots of one pair, in either order, are resolved
\* as a match: both LEDs get the same color, both presses the same sound,
\* then "correct_answer" is played, matched_pairs grows by one and no LED is
\* turned off.
C2_MatchSymmetry ==
    /\ PairPressed =>
         LET a == selections[1]
             b == selections[2]
         IN  /\ pc \in {"check", "correct", "clear"}
             /\ SpecColor(a) = SpecColor(b) /\ SpecSound(a) = SpecSound(b)
             /\ Len(trace) >= 4
             /\ SubSeq(trace, 1, 4) = FeedbackOf(a) \o FeedbackOf(b)
             /\ leds[a] = SpecColor(a) /\ leds[b] = SpecColor(a) /\ leds[a] # "black"
             /\ pc \in {"check", "correct"} => Len(trace) = 4 /\ matched_pairs = matched0
             /\ pc = "clear" => /\ trace = FeedbackOf(a) \o FeedbackOf(b)
                                           \o <<PlayCmd("correct_answer")>>
                                /\ matched_pairs = matched0 + 1
    /\ (RoundEnded /\ prev_button # last_button /\ SamePair(prev_button, last_button))
       => /\ trace = FeedbackOf(prev_button) \o FeedbackOf(last_button)
                     \o <<PlayCmd("correct_answer")>>
          /\ matched_pairs = matched0 + 1
          /\ leds[prev_button] = SpecColor(prev_button)
          /\ leds[last_button] = SpecColor(prev_button)

\* C2 witness: a pair pressed high slot first has been resolved as a match.
C2_Witness ==
    /\ PairPressed /\ pc = "clear"
    /\ selections[1] \in HighHalf
    /\ matched_pairs = 1

\* ---- C3 -------------------------------------------------------------------
\* The buffer holds two slots of two different pairs.
MismatchPressed ==
    /\ Len(selections) = 2
    /\ selections[1] # selections[2]
    /\ InSomePair(selections[1]) /\ InSomePair(selections[2])
    /\ ~SamePair(selections[1], selections[2])

\* The commands of a mismatch after the two feedbacks.
MismatchTail(a, b) ==
    <<PlayCmd("incorrect"), SleepCmd("0.5"), LedCmd(a, "black"), LedCmd(b, "black")>>
\* How many of them have been issued at each position of the worker.
MismatchDone(p) ==
    CASE p = "delay" -> 1
      [] p = "off_first" -> 2
      [] p = "off_second" -> 3
      [] p = "clear" -> 4
      [] OTHER -> 0

\* C3: two different slots of two different pairs in the buffer are resolved
\* as a mismatch: "incorrect" is played, then the delay, then the first LED
\* and then the second LED are set to "black"; until the delay is over both
\* LEDs show their colors; matched_pairs does not change.
C3_MismatchExtinguishes ==
    /\ MismatchPressed =>
         LET a == selections[1]
             b == selections[2]
         IN  /\ pc \in {"check", "incorrect", "delay", "off_first", "off_second", "clear"}
             /\ matched_pairs = matched0
             /\ Len(trace) = 4 + MismatchDone(pc)
             /\ trace = FeedbackOf(a) \o FeedbackOf(b)
                        \o SubSeq(MismatchTail(a, b), 1, MismatchDone(pc))
             /\ pc \in {"check", "incorrect", "delay", "off_first"}
                => leds[a] = SpecColor(a) /\ leds[b] = SpecColor(b)
             /\ pc = "clear" => leds[a] = "black" /\ leds[b] = "black"
    /\ (/\ RoundEnded /\ prev_button # last_button
        /\ ~SamePair(prev_button, last_button))
       => /\ trace = FeedbackOf(prev_button) \o FeedbackOf(last_button)
                     \o MismatchTail(prev_button, last_button)
          /\ matched_pairs = matched0
          /\ leds[prev_button] = "black" /\ leds[last_button] = "black"

\* C3 witness: a mismatch has turned both LEDs off while a pair is matched.
C3_Witness ==
    /\ MismatchPressed /\ pc = "clear"
    /\ matched_pairs = 1

\* ---- C4 -------------------------------------------------------------------
\* C4: when the slot just got is the slot got right before it, the press is
\* never resolved as a match or a mismatch: neither "correct_answer" nor
\* "incorrect" is played, matched_pairs keeps its value, and a buffer holding
\* the same slot twice is discarded with nothing but the two feedbacks.
C4_SelfMatchExclusion ==
    /\ (n_get >= 2 /\ prev_button = last_button)
       => /\ pc \in {"lookup", "led", "sound", "append", "check"} \cup Waiting
          /\ matched_pairs = matched0
          /\ PlayCmd("correct_answer") \notin Range(trace)
          /\ PlayCmd("incorrect") \notin Range(trace)
    /\ (RoundEnded /\ prev_button = last_button)
       => trace = FeedbackOf(last_button) \o FeedbackOf(last_button)
    /\ pc \in Resolving \ {"check"} => selections[1] # selections[2]

\* C4 witness: one slot pressed four times in a row, twice discarded.
C4_Witness ==
    /\ RoundEnded /\ prev_button = last_button
    /\ n_get = 4 /\ sounds_played = 4 /\ matched_pairs = 0
    /\ \A s \in Slots \ {last_button} : leds[s] = "black"

\* ---- C5 -------------------------------------------------------------------
\* The commands of the end of the game issued so far: the sweep in index
\* order, then the end sound.
SweepCmds(n) == [i \in 1..n |-> LedCmd(i, end_colors[i])]
EndPositions == {"end", "end_sound", "crashed"}
SweepDone == IF pc = "end" THEN sweep_i - 1 ELSE NumSlots
\* In the end of the game: every pair counted as matched, the buffer empty,
\* after the last match only the sweep 1..NumSlots in order and then one end
\* sound; with each pair matched by exactly its two presses the worker has
\* played 3 sounds per pair plus the end sound.
C5_State ==
    /\ pc \in EndPositions =>
          /\ total_pairs = HalfSize /\ matched_pairs = total_pairs
          /\ selections = <<>>
          /\ Len(trace) >= 5 /\ trace[5] = PlayCmd("correct_answer")
          /\ SubSeq(trace, 6, Len(trace))
               = SweepCmds(SweepDone)
                 \o (IF pc = "crashed" THEN <<PlayCmd("end_of_game")>> ELSE <<>>)
          /\ \A i \in 1..SweepDone : leds[i] = end_colors[i]
    /\ pc \notin EndPositions => PlayCmd("end_of_game") \notin Range(trace)
    /\ (pc = "crashed" /\ n_get = 2 * HalfSize /\ Cardinality(matched_set) = HalfSize)
       => sounds_played = 3 * HalfSize + 1
\* The steps of the end of the game: the last match leads into the sweep, the
\* sweep into the end sound, the end sound ends the worker; from the start of
\* the sweep on no event is got and nothing is buffered or counted.
C5_Step ==
    /\ (pc = "clear" /\ matched_pairs = total_pairs /\ pc' # pc) => pc' = "end"
    /\ (pc = "end" /\ pc' # pc) => pc' = "end_sound" /\ sweep_i = NumSlots + 1
    /\ (pc = "end_sound" /\ pc' # pc) => pc' = "crashed"
    /\ pc \in EndPositions
       => /\ n_get' = n_get /\ selections' = selections
          /\ matched_pairs' = matched_pairs
          /\ \A i \in 1..Len(queue) : queue'[i] = queue[i]
    /\ pc = "crashed"
       => pc' = pc /\ leds' = leds /\ trace' = trace /\ sounds_played' = sounds_played

\* C5: once every pair has been matched the worker lights the slots
\* 1..NumSlots in index order, then plays the end sound exactly once (3 sounds
\* per pair plus the end sound when each pair took exactly its two presses),
\* and from then on gets and processes no further press.
C5_Completion == []C5_State /\ [][C5_Step]_vars

\* C5 witness: both pairs matched by four presses, the game ended, a fifth
\* press waits in the queue for good.
C5_Witness ==
    /\ pc = "crashed" /\ n_get = 2 * HalfSize
    /\ Cardinality(matched_set) = HalfSize
    /\ sounds_played = 3 * HalfSize + 1
    /\ Len(queue) = 1
    /\ \A i \in Slots : leds[i] = end_colors[i]

\* ---- C6 -------------------------------------------------------------------
\* Where the feedback of the press just got stands at each position: before
\* the append the buffer holds at most one slot and the round's commands are
\* the feedbacks of the buffered slots, then the LED command of this press,
\* then its sound; at the check the press is the last slot of the buffer.
C6_State ==
    /\ pc \in {"led", "sound", "append"}
       => /\ InSomePair(button_number) /\ button_number = last_button
          /\ pair_index = PairIndexOf(button_number) - 1
          /\ Len(selections) <= 1
          /\ \A k \in 1..Len(selections) :
                SubSeq(trace, 2 * k - 1, 2 * k) = FeedbackOf(selections[k])
    /\ pc = "led" => Len(trace) = 2 * Len(selections)
    /\ pc = "sound"
       => /\ Len(trace) = 2 * Len(selections) + 1
          /\ trace[Len(trace)] = LedCmd(button_number, SpecColor(button_number))
          /\ leds[button_number] = SpecColor(button_number)
    /\ pc = "append"
       => /\ Len(trace) = 2 * Len(selections) + 2
          /\ SubSeq(trace, Len(trace) - 1, Len(trace)) = FeedbackOf(button_number)
          /\ leds[button_number] = SpecColor(button_number)
    /\ pc = "check"
       => /\ selections # <<>> /\ selections[Len(selections)] = button_number
          /\ Len(trace) = 2 * Len(selections)
          /\ \A k \in 1..Len(selections) :
                SubSeq(trace, 2 * k - 1, 2 * k) = FeedbackOf(selections[k])
\* Every event got whose slot lies in a pair goes through LED, sound, append,
\* in this order, and plays one sound on the way.
C6_Step ==
    /\ (pc = "lookup" /\ InSomePair(button_number) /\ pc' # pc) => pc' = "led"
    /\ (pc = "led" /\ pc' # pc) => pc' = "sound" /\ sounds_played' = sounds_played
    /\ (pc = "sound" /\ pc' # pc) => pc' = "append" /\ sounds_played' = sounds_played + 1
    /\ (pc = "append" /\ pc' # pc)
       => pc' = "check" /\ selections' = Append(selections, button_number)
    /\ selections' # selections
       => selections' = <<>> \/ (pc = "append" /\ pc' = "check")

\* C6: every event got whose slot lies in a pair sets the slot's LED to the
\* pair's color, then plays the pair's sound once, and only then is the slot
\* appended to the buffer -- whatever the buffer holds and whether or not the
\* pair has been matched before.
C6_FeedbackBeforeBuffering == []C6_State /\ [][C6_Step]_vars

\* C6 witness: the feedback of a press of an already matched pair is complete
\* while the buffer holds another slot and the press is not yet appended.
C6_Witness ==
    /\ pc = "append" /\ Len(selections) = 1
    /\ pair_index \in matched_set
    /\ selections[1] # button_number

\* ---- C7 -------------------------------------------------------------------
\* The first two events got in the game are the two slots of one pair.
FirstTwo ==
    /\ n_get = 2
    /\ prev_button \in Slots /\ prev_button # last_button
    /\ SamePair(prev_button, last_button)
\* The five commands of the scenario for slots a, b of the pair at table
\* position i.
FreshMatchCmds(a, b, i) ==
    <<LedCmd(a, colors[i]), PlayCmd(sounds[i]),
      LedCmd(b, colors[i]), PlayCmd(sounds[i]), PlayCmd("correct_answer")>>
\* How many of them have been issued at each position of the worker.
FreshMatchDone(p) ==
    CASE p \in {"lookup", "led"} -> 2
      [] p = "sound" -> 3
      [] p \in {"append", "check", "correct"} -> 4
      [] OTHER -> 5

\* C7: in a game just started, with the pairing create_pairs made, a press
\* of one slot of pair i and then of its partner issues exactly: LED of the
\* first slot colors[i], sounds[i], LED of the second slot colors[i],
\* sounds[i], "correct_answer"; then matched_pairs is 1, the buffer is empty
\* and both LEDs show colors[i] (every other LED is still black).
C7_FreshGameMatch ==
    FirstTwo =>
      LET a == prev_button
          b == last_button
          i == PairIndexOf(prev_button)
          full == FreshMatchCmds(a, b, i)
      IN  /\ WellFormed(pairs)
          /\ pc \in {"lookup", "led", "sound", "append", "check", "correct", "clear"}
                    \cup Waiting
          /\ pc \notin Waiting \/ RoundEnded
             => trace = SubSeq(full, 1, FreshMatchDone(pc))
          /\ pc \in {"lookup", "led", "sound", "append"} => selections = <<a>>
          /\ pc \in {"check", "correct", "clear"} => selections = <<a, b>>
          /\ pc \in {"lookup", "led", "sound", "append", "check", "correct"}
             => matched_pairs = 0
          /\ pc \in {"clear"} \cup Waiting
             => /\ matched_pairs = 1
                /\ sounds_played = 3
                /\ leds[a] = colors[i] /\ leds[b] = colors[i]
                /\ \A s \in Slots \ {a, b} : leds[s] = "black"
          /\ pc \in Waiting => selections = <<>>

\* C7 witness: the second pair, pressed high slot first as the first two
\* presses of the game, has been resolved.
C7_Witness ==
    /\ FirstTwo /\ RoundEnded
    /\ prev_button \in HighHalf
    /\ PairIndexOf(prev_button) = HalfSize
    /\ matched_pairs = 1 /\ selections = <<>>

\* ---- C8 -------------------------------------------------------------------
\* The pairs that hold the slot.
PairsHolding(s) == {i \in 1..Len(pairs) : s \in Range(pairs[i])}
Generating == mpc \in {"cp_v1", "cp_v2", "cp_append", "cp_remove"}

\* C8: whenever a call of create_pairs has returned, first or later, the
\* pairing holds exactly HalfSize pairs of two slots each, the slots of the
\* pairs are exactly 1..NumSlots and each slot lies in exactly one pair; a
\* later call starts from an empty pairing (while it runs the pairing holds
\* one pair per finished iteration and no slot twice).
C8_Partition ==
    /\ (mpc = "ready" /\ calls >= 1)
       => /\ Len(pairs) = HalfSize
          /\ \A i \in 1..Len(pairs) : Len(pairs[i]) = 2 /\ pairs[i][1] # pairs[i][2]
          /\ UNION {Range(pairs[i]) : i \in 1..Len(pairs)} = Slots
          /\ \A s \in Slots : Cardinality(PairsHolding(s)) = 1
    /\ Generating
       => /\ Len(pairs) = (IF mpc = "cp_remove" THEN cp_i + 1 ELSE cp_i)
          /\ Len(pairs) <= HalfSize
          /\ \A s \in Slots : Cardinality(PairsHolding(s)) <= 1
    /\ mpc = "init" => pairs = <<>> /\ calls = 0

\* C8 witness: a second call has returned with a pairing that is not the
\* identity pairing.
C8_Witness ==
    /\ mpc = "ready" /\ calls = 2
    /\ Len(pairs) = HalfSize
    /\ pairs[1] = <<HalfSize, HalfSize + 1>>

\* ---- C9 -------------------------------------------------------------------
\* C9: every pair create_pairs has appended, whatever the draws, holds
\* exactly one slot of the low half 1..HalfSize and exactly one slot of the
\* high half HalfSize+1..NumSlots.
C9_CrossHalf ==
    \A i \in 1..Len(pairs) :
        /\ Len(pairs[i]) = 2
        /\ Cardinality({j \in 1..2 : pairs[i][j] \in LowHalf}) = 1
        /\ Cardinality({j \in 1..2 : pairs[i][j] \in HighHalf}) = 1

\* C9 witness: a finished pairing whose first pair joins the last slot of
\* the low half with the last slot of the high half.
C9_Witness ==
    /\ mpc = "ready" /\ calls = 1
    /\ Len(pairs) = HalfSize
    /\ pairs[1] = <<HalfSize, NumSlots>>

\* ---- C10 ------------------------------------------------------------------
\* The color and the sound the worker uses for a slot: the table entries at
\* the index _get_pair_index returns.
UsedColor(s) == colors[GetPairIndex(pairs, s) + 1]
UsedSound(s) == sounds[GetPairIndex(pairs, s) + 1]
TableSize == 8

\* C10: the tables hold 8 entries, no entry twice; once create_pairs has
\* returned, the index found for a slot is the 0-based draw order of the pair
\* that holds it, so the two slots of a pair get the same color and sound
\* and slots of different pairs get different colors and different sounds;
\* the LED command and the sound of a press use exactly these entries.
C10_TableLookup ==
    /\ Len(colors) = TableSize /\ Len(sounds) = TableSize
    /\ \A i, j \in 1..TableSize :
          i # j => colors[i] # colors[j] /\ sounds[i] # sounds[j]
    /\ (calls >= 1 /\ ~Generating)
       => /\ \A k \in 1..Len(pairs) : \A j \in 1..2 :
                GetPairIndex(pairs, pairs[k][j]) = k - 1
          /\ \A a, b \in Slots :
                IF SamePair(a, b)
                THEN UsedColor(a) = UsedColor(b) /\ UsedSound(a) = UsedSound(b)
                ELSE UsedColor(a) # UsedColor(b) /\ UsedSound(a) # UsedSound(b)
    /\ pc \in {"sound", "append"}
       => \E k \in 1..Len(pairs) :
             /\ button_number \in Range(pairs[k])
             /\ pair_index = k - 1
             /\ leds[button_number] = colors[k]
             /\ LedCmd(button_number, colors[k]) \in Range(trace)
             /\ pc = "append" => trace[Len(trace)] = PlayCmd(sounds[k])

\* C10 witness: the high slot of the last pair drawn has been lit with the
\* color of its table position and its sound has been played.
C10_Witness ==
    /\ pc = "append"
    /\ button_number \in HighHalf
    /\ pair_index = HalfSize - 1
    /\ leds[button_number] = colors[HalfSize]
    /\ trace[Len(trace)] = PlayCmd(sounds[HalfSize])

\* ---- C11 ------------------------------------------------------------------
\* The step that handles an event whose slot no pair holds leaves the LEDs,
\* the commands issued, the sounds, the buffer and the count as they were and
\* goes back to the head of the loop.
C11_Step ==
    (pc = "lookup" /\ ~InSomePair(button_number) /\ pc' # pc)
    => /\ pc' = "loop"
       /\ leds' = leds /\ trace' = trace /\ sounds_played' = sounds_played
       /\ selections' = selections /\ matched_pairs' = matched_pairs
       /\ n_get' = n_get /\ queue' = queue
\* The event is off the queue when it is looked up; a worker whose pairing is
\* empty (every slot unknown) has lit nothing, played nothing, buffered
\* nothing and counted nothing, however many events it got.
C11_State ==
    /\ pc = "lookup" => n_get >= 1 /\ n_get + Len(queue) = n_put
    /\ pairs = <<>>
       => /\ sounds_played = 0 /\ trace = <<>>
          /\ selections = <<>> /\ matched_pairs = 0
          /\ \A s \in Slots : leds[s] = "black"
          /\ pc \notin {"led", "sound", "append", "check"} \cup Resolving

\* C11: an event got whose slot lies in no pair of the pairing is consumed as
\* a no-op: no LED command, no sound, buffer and matched_pairs unchanged.
C11_UnknownSlot == []C11_State /\ [][C11_Step]_vars

\* C11 witness: a worker started on an empty pairing has consumed three
\* events of slots no pair holds.
C11_Witness ==
    /\ pc = "loop" /\ pairs = <<>> /\ total_pairs = 0
    /\ n_get = 3 /\ queue = <<>>
    /\ prev_button # last_button
    /\ sounds_played = 0 /\ selections = <<>>

\* ---- C12 ------------------------------------------------------------------
\* The buffer holds a slot of an already matched pair, then a slot of a
\* different pair.
RePressThenOther ==
    /\ Len(selections) = 2
    /\ selections[1] # selections[2]
    /\ GetPairIndex(pairs, selections[1]) \in matched_set
    /\ ~SamePair(selections[1], selections[2])
C12_Step ==
    (pc = "append" /\ pair_index \in matched_set /\ pc' # pc)
    => selections' = Append(selections, button_number) /\ pc' = "check"
C12_State ==
    /\ RePressThenOther
       => /\ pc \in {"check", "incorrect", "delay", "off_first", "off_second", "clear"}
          /\ matched_pairs = matched0
          /\ pc \in {"delay", "off_first", "off_second", "clear"}
             => PlayCmd("incorrect") \in Range(trace)
          /\ pc = "clear"
             => /\ leds[selections[1]] = "black" /\ leds[selections[2]] = "black"
                /\ trace[Len(trace) - 3] = PlayCmd("incorrect")
    /\ (/\ RoundEnded /\ prev_button # last_button
        /\ GetPairIndex(pairs, prev_button) \in matched_set
        /\ ~SamePair(prev_button, last_button))
       => /\ PlayCmd("incorrect") \in Range(trace)
          /\ PlayCmd("correct_answer") \notin Range(trace)
          /\ leds[prev_button] = "black" /\ leds[last_button] = "black"

\* C12: the buffer is not filtered for matched pairs: a slot of an already
\* matched pair is appended like any other, and followed by a slot of a
\* different pair it is resolved as a mismatch ("incorrect", both LEDs
\* turned off, the matched pair's LED included).
C12_NoFilter == []C12_State /\ [][C12_Step]_vars

\* C12 witness: a slot of the matched pair and a slot of the other pair have
\* been resolved as a mismatch and both LEDs are off.
C12_Witness ==
    /\ RePressThenOther /\ pc = "clear"
    /\ matched_pairs = 1
    /\ leds[selections[1]] = "black" /\ leds[selections[2]] = "black"

\* ---- C13 ------------------------------------------------------------------
\* One pair had been matched and a slot of it was alone in the buffer when
\* the event before the last was got; that event and the last one are the
\* two slots of another pair.
RePressScenario ==
    /\ n_get >= 2
    /\ snap1.matched = 1
    /\ Len(snap1.sel) = 1
    /\ GetPairIndex(pairs, snap1.sel[1]) \in matched_set
    /\ ~SamePair(snap1.sel[1], prev_button)
    /\ prev_button # last_button
    /\ SamePair(prev_button, last_button)

C14_PairingBeforeFirstEvent ==
    n_get >= 1 => WellFormed(pairs) /\ total_pairs = HalfSize

\* ---- C15 ------------------------------------------------------------------
\* The main thread is past the start cue of play.
CuePlayed == mpc \in {"input", "join", "cleanup", "exited"}

\* C15: play plays one sound, the start cue, on the main thread: none before
\* the cue, one from the cue on; and while no button has been pressed the
\* worker plays nothing and issues no command at all.
C15_StartCueOnly ==
    /\ cue_sounds = (IF CuePlayed THEN 1 ELSE 0)
    /\ n_put = 0
       => /\ sounds_played = 0 /\ trace = <<>>
          /\ \A s \in Slots : leds[s] = "black"
          /\ pc \in {"idle", "start", "loop", "poll", "done"}
    /\ sounds_played <= 2 * n_get + 1

\* C15 witness: the game runs on a full pairing, the cue has been played,
\* the worker polls an empty queue and nothing else has sounded.
C15_Witness ==
    /\ mpc = "input" /\ pc = "poll" /\ WellFormed(pairs)
    /\ n_put = 0 /\ cue_sounds = 1 /\ sounds_played = 0

\* ---- C16 ------------------------------------------------------------------
\* The main thread is past the exit signal.
Exiting == mpc \in {"join", "cleanup", "exited"}
\* The flag is cleared exactly from the exit signal on; cleanup has been
\* called once when play has returned and not before; join has returned only
\* when the worker thread has ended; while the main thread waits in join the
\* program can take a step (the worker runs on, or join returns).
C16_State ==
    /\ play_game = ~Exiting
    /\ cleanups = (IF mpc = "exited" THEN 1 ELSE 0)
    /\ mpc \in {"cleanup", "exited"} => WorkerEnded
    /\ mpc = "join" => ENABLED (Worker \/ JoinWorker)
    /\ mpc = "cleanup" => ENABLED Cleanup
\* Once the flag is cleared nothing sets it again, and an ended worker stays
\* ended.
C16_Step ==
    /\ ~play_game => ~play_game'
    /\ WorkerEnded => pc' = pc

\* C16: the exit signal clears play_game; from whatever position the worker
\* is in, it then ends, join returns and cleanup is called exactly once; the
\* main thread is never stuck in join.
C16_OrderlyShutdown ==
    /\ []C16_State
    /\ [][C16_Step]_vars
    /\ (mpc = "join") ~> (mpc = "exited" /\ cleanups = 1 /\ WorkerEnded)

\* C16 witness: the exit signal came while the worker was in the delay of a
\* mismatch, with an event waiting; play has returned after one cleanup.
C16_Witness ==
    /\ mpc = "exited" /\ cleanups = 1 /\ pc = "done"
    /\ ~play_game
    /\ n_get >= 2 /\ queue # <<>>

\* ---- C17 ------------------------------------------------------------------
\* The end of the game has run: the worker thread ended in Game.end.
GameOver == pc = "crashed"
\* A step the program takes by itself: every step of the worker and of the
\* main thread but the exit signal, which comes from outside.
OwnStep == Worker \/ MainCreatePairs \/ StartGame \/ StartCue \/ JoinWorker \/ Cleanup

\* C17 as stated: when the game is over the controller shuts down (flag,
\* join, cleanup) without waiting for the exit signal: until play has
\* returned the program can go on by itself.
C17_ShutdownOnGameOver ==
    (GameOver /\ mpc # "exited") => ENABLED OwnStep

\* ---- C18 ------------------------------------------------------------------
\* No thread issues an LED or audio command in this step.
NoCommand ==
    /\ sounds_played' = sounds_played /\ trace' = trace
    /\ cue_sounds' = cue_sounds
    /\ hold_cmds' = hold_cmds
    /\ leds' = leds

WorkerFailed == pc = "failed"

\* C19 as stated: the failure reaches the controller, which cleans up and
\* ends the session: no further event is processed, and until play has
\* returned the program goes on by itself -- it does not wait for the exit
\* signal as if the game were running.
C19_FailureEndsSession ==
    WorkerFailed
    => /\ n_get + Len(queue) = n_put
       /\ mpc # "exited" => ENABLED OwnStep

\* ---- C20 ------------------------------------------------------------------
\* The worker of a restarted game is running.
RestartedRunning == games >= 2 /\ pc \notin {"idle", "start"}

\* C20 as stated: the old worker has ended before the new one starts, and
\* the restarted game runs on a full, freshly generated pairing, with
\* matched_pairs 0 and an empty buffer when its worker begins.
C20_RestartFresh ==
    /\ (games >= 2 /\ pc = "idle") => mpc \in {"init", "cp_v1", "cp_v2", "cp_append",
                                                "cp_remove", "ready"}
    /\ RestartedRunning => WellFormed(pairs) /\ total_pairs = HalfSize
    /\ (RestartedRunning /\ n_get = 0) => matched_pairs = 0 /\ selections = <<>>

\* ---- C21 ------------------------------------------------------------------
\* The mapping a player sees: for each slot the color and the sound a press
\* of it gives, none when no pair holds the slot.
MappingOf(ps) ==
    [s \in Slots |->
        IF GetPairIndex(ps, s) = NotFound
        THEN <<"none", "none">>
        ELSE <<colors[GetPairIndex(ps, s) + 1], sounds[GetPairIndex(ps, s) + 1]>>]

\* C21 as stated: the mapping of a game played after a restart is never
\* equal to the mapping of the game played before it.
C21_MappingDiffers ==
    RestartedRunning => MappingOf(pairs) # MappingOf(old_pairs)

\* ---- C22 ------------------------------------------------------------------
\* A call of when_held has returned.
HoldEnded == hpc = "idle" /\ holds >= 1
\* The commands of the reset: the cue and every LED set to black.
ResetCmds == <<PlayCmd("doorbell_x")>> \o [i \in 1..NumSlots |-> LedCmd(i, "black")]
\* The commands of the reveal: for each pair in index order and for both of
\* its slots, the pair's sound and then the pair's color on the slot.
RevealCmds(ps) ==
    [k \in 1..(4 * Len(ps)) |->
        LET i == ((k - 1) \div 4) + 1
            j == (((k - 1) % 4) \div 2) + 1
        IN  IF k % 2 = 1 THEN PlayCmd(sounds[i]) ELSE LedCmd(ps[i][j], colors[i])]
\* The notifier thread is inside when_held in a play_preloaded_wav call made
\* with wait_until_done=True: it goes on only when the playback is over.
HoldInPlayback == hpc = "h_bell" \/ (hpc = "h_sound" /\ h_i + 1 <= Len(pairs))
\* A step of the hold handler.
HoldStep == holds' # holds \/ hpc' # hpc \/ hold_cmds' # hold_cmds

\* What a hold has done once it has returned.
C22_Effects ==
    HoldEnded
    => /\ h_button = 1
          => Len(hold_trace) = NumSlots + 1 /\ Range(hold_trace) = Range(ResetCmds)
       /\ h_button = 2
          => Len(pairs) = HalfSize /\ hold_trace = RevealCmds(pairs)
       /\ h_button \notin {1, 2} => hold_trace = <<>>
\* A hold dispatches its commands without making the notifier wait.
C22_NonBlocking == ~HoldInPlayback
\* A step of a hold leaves the buffer, the count, the pairing and the queue.
C22_Frame ==
    HoldStep
    => /\ selections' = selections /\ matched_pairs' = matched_pairs
       /\ pairs' = pairs /\ queue' = queue

\* C22 as stated: a hold of slot 1 clears every LED and plays the reset cue;
\* a hold of slot 2 replays, pair by pair in index order and for both slots
\* of each pair, the pair's sound and color; a hold of any other slot does
\* nothing; no hold makes the notifier wait, and none changes the buffer,
\* matched_pairs, the pairing or the queue.
C22_HoldCommands ==
    /\ [](C22_Effects /\ C22_NonBlocking)
    /\ [][C22_Frame]_vars

\* ---- C23 ------------------------------------------------------------------
\* The worker thread has been started and has not ended.
WorkerRunning == pc # "idle" /\ ~WorkerEnded
\* Each thread stands at an LED or audio call.
WorkerInCall == pc \in HardwareCalls /\ (pc = "end" => sweep_i <= NumSlots)
MainInCall == mpc = "cue"
HoldInCall == hpc \in {"h_bell", "h_clear", "h_led"} \/ HoldInPlayback
\* How many threads stand at an LED or audio call.
ThreadsInCall ==
    (IF WorkerInCall THEN 1 ELSE 0) + (IF MainInCall THEN 1 ELSE 0)
    + (IF HoldInCall THEN 1 ELSE 0)

\* C23 as stated: at most one thread is in an LED or audio call at a time,
\* and while the worker thread runs no LED or audio command comes from the
\* main thread (the start cue) or from a hold handler.
C23_NoConcurrentAccess ==
    /\ [](ThreadsInCall <= 1)
    /\ [][WorkerRunning => (cue_sounds' = cue_sounds /\ hold_cmds' = hold_cmds)]_vars

\* ---- C24 ------------------------------------------------------------------
\* An event is got only at the get of the loop, which the worker reaches only
\* through the poll from the head of the loop; the head of the loop is
\* reached only from the start of the thread, from an empty poll or from the
\* end of an event's processing (unknown slot, buffer of one, discard, end of
\* a resolution); the worker thread is started once, from the Game's idle
\* state.
C24_Step ==
    /\ n_get' # n_get
       => /\ pc = "get" /\ pc' = "lookup"
          /\ n_get' = n_get + 1 /\ queue' = Tail(queue)
    /\ (pc' = "get" /\ pc # "get") => pc = "poll"
    /\ (pc' = "poll" /\ pc # "poll") => pc = "loop"
    /\ (pc' = "loop" /\ pc # "loop") => pc \in {"start", "poll", "lookup", "check", "clear"}
    /\ (pc' = "start" /\ pc # "start") => pc = "idle"
    /\ pc' = "idle" => pc = "idle"
\* Between two events, every effect of the last event got is complete: by
\* what the buffer held when it was got (snap0), its feedback and its
\* resolution are over, the LEDs of a mismatch are off and the buffer is
\* cleared; the locals of the iteration are dead.
C24_State ==
    (pc \in Waiting /\ n_get >= 1)
    => /\ button_number = 0 /\ pair_index = NotFound
       /\ Len(selections) <= 1
       /\ ~InSomePair(last_button)
          => /\ selections = snap0.sel /\ sounds_played = snap0.sounds
             /\ matched_pairs = snap0.matched
       /\ (InSomePair(last_button) /\ snap0.sel = <<>>)
          => /\ selections = <<last_button>> /\ sounds_played = snap0.sounds + 1
             /\ matched_pairs = snap0.matched
             /\ leds[last_button] = SpecColor(last_button)
       /\ (InSomePair(last_button) /\ snap0.sel # <<>>)
          => LET a == snap0.sel[1]
             IN  /\ selections = <<>>
                 /\ a = last_button
                    => /\ sounds_played = snap0.sounds + 1
                       /\ matched_pairs = snap0.matched
                 /\ (a # last_button /\ SamePair(a, last_button))
                    => /\ sounds_played = snap0.sounds + 2
                       /\ matched_pairs = snap0.matched + 1
                 /\ (a # last_button /\ ~SamePair(a, last_button))
                    => /\ sounds_played = snap0.sounds + 2
                       /\ matched_pairs = snap0.matched
                       /\ leds[a] = "black" /\ leds[last_button] = "black"

\* C24: events are processed strictly one at a time: the worker gets the
\* next event only once the feedback, the resolution, the delay, the LED
\* turn-off and the buffer clear of the previous one are complete, and a
\* Game has one worker thread.
C24_OneAtATime == []C24_State /\ [][C24_Step]_vars

\* C24 witness: two events waited in the queue while a mismatch was resolved;
\* the worker is at its next get with both LEDs off and the buffer empty.
C24_Witness ==
    /\ pc = "get" /\ Len(queue) = 2 /\ n_get = 2
    /\ Len(snap0.sel) = 1 /\ InSomePair(last_button)
    /\ ~SamePair(snap0.sel[1], last_button)
    /\ selections = <<>> /\ leds[last_button] = "black"

\* ---- C25 ------------------------------------------------------------------
\* A step of a thread other than the worker: the main thread (each of its
\* steps moves mpc), a notifier in when_pressed, a notifier in when_held
\* (when_released does nothing).
OtherStep == mpc' # mpc \/ n_put' # n_put \/ HoldStep
\* The step leaves the pairing, the buffer and the count as they are.
KeepsGameData ==
    pairs' = pairs /\ selections' = selections /\ matched_pairs' = matched_pairs

\* C25 as stated: while the worker runs, no step of another thread writes
\* the pairing, the buffer, matched_pairs or the liveness flag.
C25_AsStated ==
    [][(WorkerRunning /\ OtherStep) => (KeepsGameData /\ play_game' = play_game)]_vars

\* C25 as amended: while the worker runs, no step of another thread writes
\* the pairing, the buffer or matched_pairs; the liveness flag is written by
\* the main thread alone, once, at the exit signal (set to false), and the
\* worker only reads it.
C25_Ownership ==
    [][/\ (WorkerRunning /\ OtherStep) => KeepsGameData
       /\ play_game' # play_game
          => /\ mpc = "input" /\ mpc' = "join" /\ play_game /\ ~play_game'
             /\ pc' = pc /\ sweep_i' = sweep_i]_vars

\* C25 witness: the exit signal has cleared the flag while the worker was in
\* the middle of an event with a slot in the buffer, after a hold has issued
\* commands.
C25_Witness ==
    /\ WorkerRunning /\ ~play_game /\ mpc = "join"
    /\ pc = "sound" /\ Len(selections) = 1
    /\ holds = 1 /\ hold_cmds >= 1

\* ---- C26 ------------------------------------------------------------------
\* The steps of a mismatch resolution and of the end of the game, from their
\* first command on: each position leads to the next one of the sequence and
\* does its work, whatever the liveness flag holds.
C26_Step ==
    /\ (pc = "incorrect" /\ pc' # pc) => pc' = "delay"
    /\ (pc = "delay" /\ pc' # pc) => pc' = "off_first"
    /\ (pc = "off_first" /\ pc' # pc)
       => pc' = "off_second" /\ leds'[selections[1]] = "black"
    /\ (pc = "off_second" /\ pc' # pc)
       => pc' = "clear" /\ leds'[selections[2]] = "black"
    /\ (pc = "clear" /\ pc' # pc) => selections' = <<>> /\ pc' \in {"loop", "end"}
    /\ (pc = "end" /\ sweep_i' # sweep_i)
       => /\ sweep_i' = sweep_i + 1 /\ sweep_i <= NumSlots /\ pc' = "end"
          /\ leds'[sweep_i] = end_colors[sweep_i]
    /\ (pc = "end" /\ pc' # pc) => pc' = "end_sound" /\ sweep_i = NumSlots + 1
    /\ (pc = "end_sound" /\ pc' # pc)
       => /\ pc' = "crashed"
          /\ trace' = Append(trace, PlayCmd("end_of_game"))

\* C26: a mismatch resolution, once begun, is run to its end (both LEDs
\* turned off, the buffer cleared) and so is the end of the game (every
\* slot swept, the end sound played), also when play_game is set to false
\* in the meantime: the flag is not looked at before the head of the loop.
C26_NoCancellation ==
    /\ [][C26_Step]_vars
    /\ (pc = "incorrect") ~> (pc = "loop" /\ selections = <<>>)
    /\ (pc = "end") ~> (pc = "crashed")

\* C26 witness: the flag was cleared during a mismatch resolution, which has
\* turned both LEDs off all the same and is about to clear the buffer.
C26_Witness ==
    /\ ~play_game /\ mpc = "join"
    /\ pc = "clear" /\ MismatchPressed
    /\ leds[selections[1]] = "black" /\ leds[selections[2]] = "black"

\* ---- C27 ------------------------------------------------------------------
\* The worker thread has stopped: it left its loop, or the game ended.
WorkerStopped == pc \in {"done", "crashed"}

\* C27: the buffer never holds more than 2 slots; it holds 2 only while the
\* second of them is being resolved; between two events and once the worker
\* has stopped it holds 0 or 1 slots -- each of them a slot of the pairing,
\* and with the flag cleared at any point of an event's processing as well.
C27_BufferBound ==
    /\ Len(selections) <= 2
    /\ Len(selections) = 2 => pc \in Resolving
    /\ (pc \in Waiting \/ WorkerStopped) => Len(selections) <= 1
    /\ \A k \in 1..Len(selections) : InSomePair(selections[k])
    /\ matched_pairs <= total_pairs
    /\ pc \notin {"idle", "start"} => total_pairs = Len(pairs)

\* C27 witness: the exit signal came while the second event of a round was
\* being handled and a third waited; the worker has stopped with the round
\* resolved, the buffer empty and the third event left in the queue.
C27_Witness ==
    /\ pc = "done" /\ ~play_game
    /\ n_get = 2 /\ Len(queue) = 1
    /\ snap0.sel # <<>> /\ InSomePair(last_button)
    /\ selections = <<>>

\* ---- C28 ------------------------------------------------------------------
\* matched_pairs is 0 until the first event is got, at most one more than it
\* was when the last event was got, and never more than the number of pairs
\* of the board; the end of the game runs only with the count at that number,
\* and with the count at that number the worker is at the end of the last
\* resolution or in the end of the game.
C28_State ==
    /\ n_get = 0 => matched_pairs = 0
    /\ matched0 <= matched_pairs /\ matched_pairs <= matched0 + 1
    /\ matched_pairs <= HalfSize
    /\ pc \in EndPositions => matched_pairs = HalfSize
    /\ matched_pairs = HalfSize => pc \in {"clear"} \cup EndPositions
\* The count never goes down and grows by one at a time; the step that ends
\* the last resolution with the count at the number of pairs starts the end
\* of the game.
C28_Step ==
    /\ matched_pairs' >= matched_pairs /\ matched_pairs' <= matched_pairs + 1
    /\ (pc = "clear" /\ pc' # pc) => (pc' = "end") = (matched_pairs = HalfSize)
    /\ (pc' = "end" /\ pc # "end") => pc = "clear"

\* C28: matched_pairs starts at 0, never decreases, grows by at most 1 per
\* event processed, never exceeds the number of pairs (8 on the full
\* board), and the end of the game runs exactly when it reaches that number.
C28_CountBounds == []C28_State /\ [][C28_Step]_vars

\* C28 witness: the count has reached the number of pairs with the last of
\* two presses per pair and the sweep of the end of the game is about to start.
C28_Witness ==
    /\ pc = "end" /\ sweep_i = 1
    /\ matched_pairs = HalfSize /\ matched0 = HalfSize - 1
    /\ n_get = 2 * HalfSize

\* ---- C29 ------------------------------------------------------------------
\* C29 as stated: matched_pairs is the number of distinct pairs resolved as
\* a match, so the end of the game runs only with every pair resolved.
C29_DistinctPairs ==
    /\ matched_pairs = Cardinality(matched_set)
    /\ pc \in EndPositions => Cardinality(matched_set) = HalfSize

\* ---- C30 ------------------------------------------------------------------
\* The buffer holds one slot twice.
SelfPressed == Len(selections) = 2 /\ selections[1] = selections[2]
\* A step of the worker in the resolution of a buffer of two.
ResolutionStep == pc \in Resolving /\ Len(selections) = 2 /\ pc' # pc
\* The LEDs of all slots but those of the buffer are left as they are.
OtherLedsKept == \A s \in Slots \ Range(selections) : leds'[s] = leds[s]

\* What each step of a resolution may change, by the outcome.
C30_Step ==
    ResolutionStep
    => /\ pairs' = pairs /\ total_pairs' = total_pairs
       /\ OtherLedsKept
       /\ selections' \in {selections, <<>>}
       /\ pc = "clear" => selections' = <<>>
       /\ SelfPressed
          => /\ pc = "check" /\ pc' = "loop" /\ selections' = <<>>
             /\ leds' = leds /\ matched_pairs' = matched_pairs
             /\ sounds_played' = sounds_played /\ trace' = trace
       /\ MismatchPressed
          => /\ matched_pairs' = matched_pairs
             /\ \A s \in Range(selections) : leds'[s] \in {leds[s], "black"}
       /\ PairPressed
          => /\ leds' = leds
             /\ matched_pairs' = matched_pairs + (IF pc = "correct" THEN 1 ELSE 0)

\* C30: the steps of a resolution change only what the outcome allows: a
\* discard of a self-press only the buffer (no LED, no sound, no count); a
\* mismatch only the buffer and the LEDs of the two buffered slots, which it
\* sets to black (the count stays); a match only the buffer and
\* matched_pairs, by one, and no LED at all.  None of them changes the
\* pairing or the LED of a slot that is not in the buffer, and each ends with
\* the buffer empty.
C30_ResolutionFrame == [][C30_Step]_vars

\* C30 witness: a mismatch has turned off the two buffered LEDs while the
\* LEDs of the pair matched before are still lit.
C30_Witness ==
    /\ pc = "clear" /\ MismatchPressed
    /\ matched_pairs = 1
    /\ leds[selections[1]] = "black" /\ leds[selections[2]] = "black"
    /\ \E s \in Slots \ Range(selections) : leds[s] # "black"

\* ---- C31 ------------------------------------------------------------------
\* The end sound of the game has been played.
EndSoundPlayed == PlayCmd("end_of_game") \in Range(trace)

\* C31 as stated: after the sweep and the end sound, end() returns and the
\* worker leaves its loop by the break: it ends as a thread that returned,
\* not as one killed by an uncaught error.
C31_EndsNormally == EndSoundPlayed => pc = "done"

\* ---- C32 ------------------------------------------------------------------
\* The slot lies in a pair that has been resolved as a match.
Matched(s) == GetPairIndex(pairs, s) \in matched_set

\* C32 as stated: from the match of its pair until the sweep of the end of
\* the game, the LED of a slot shows the pair's color and is never off.
C32_AsStated ==
    \A s \in Slots : (Matched(s) /\ pc \notin EndPositions) => leds[s] = UsedColor(s)

\* How the LED of a slot of a matched pair changes: it is set to black by
\* the turn-off of a mismatch with the slot in the buffer, lit again in its
\* color by the feedback of a press of it, or recolored by the sweep.
C32_Step ==
    \A s \in Slots :
        (Matched(s) /\ leds'[s] # leds[s])
        => \/ /\ pc \in {"off_first", "off_second"} /\ MismatchPressed
              /\ s \in Range(selections) /\ leds'[s] = "black"
           \/ pc = "led" /\ s = button_number /\ leds'[s] = UsedColor(s)
           \/ pc = "end" /\ s = sweep_i /\ leds'[s] = end_colors[s]
\* At the end of the match both LEDs show the pair's color; before the sweep
\* the LED of a slot of a matched pair shows that color or is off.
C32_State ==
    /\ (pc = "clear" /\ PairPressed)
       => \A s \in Range(selections) : Matched(s) /\ leds[s] = UsedColor(s)
    /\ \A s \in Slots :
          (Matched(s) /\ pc \notin EndPositions) => leds[s] \in {UsedColor(s), "black"}

\* C32 as amended: once a pair is resolved as a match both its LEDs show the
\* pair's color, and the worker turns the LED of a matched slot off only in
\* the mismatch of a round that holds the slot, pressed again, with a slot
\* of another pair; apart from that it changes only by the feedback of a
\* press of the slot (the same color again) and by the sweep.
C32_MatchedStaysLit == []C32_State /\ [][C32_Step]_vars

\* C32 witness: a round is over that has turned off the LED of a matched
\* slot, pressed again before a slot of another pair; its partner is lit.
C32_Witness ==
    /\ RoundEnded
    /\ \E s, t \in Slots :
          /\ s # t /\ SamePair(s, t) /\ Matched(s)
          /\ leds[s] = "black" /\ leds[t] = UsedColor(t)

\* ---- C33 ------------------------------------------------------------------
\* The worker is done with the last event got, a press of a slot of the
\* pairing.
PressHandled == pc \in Waiting /\ n_get >= 1 /\ InSomePair(last_button)
\* The last event got is a press of the partner of the slot pressed before
\* it, which had been pressed snap0.run times in a row from an empty buffer.
PartnerAfterRun ==
    /\ PressHandled /\ snap0.run >= 1
    /\ prev_button # last_button /\ SamePair(prev_button, last_button)

\* C33: after n presses in a row of one slot, the first of them on an empty
\* buffer, the buffer holds the slot when n is odd and is empty when n is
\* even, each press having played its one sound and counted nothing; a
\* press of the partner after such a run is resolved as a match when n is
\* odd and, when n is even, is only buffered as the start of a new
\* selection.
C33_SelfPressToggles ==
    /\ (PressHandled /\ same_run >= 1)
       => /\ selections = (IF same_run % 2 = 1 THEN <<last_button>> ELSE <<>>)
          /\ sounds_played = snap0.sounds + 1
          /\ matched_pairs = snap0.matched
          /\ snap0.sel = (IF same_run % 2 = 1 THEN <<>> ELSE <<last_button>>)
    /\ PartnerAfterRun
       => IF snap0.run % 2 = 1
          THEN /\ selections = <<>>
               /\ matched_pairs = snap0.matched + 1
               /\ sounds_played = snap0.sounds + 2
          ELSE /\ selections = <<last_button>>
               /\ matched_pairs = snap0.matched
               /\ sounds_played = snap0.sounds + 1

\* C33 witness: a slot pressed three times in a row, then its partner: the
\* fourth press has matched the pair.
C33_Witness ==
    /\ PartnerAfterRun /\ snap0.run = 3
    /\ pc = "loop" /\ n_get = 4
    /\ matched_pairs = 1 /\ selections = <<>>

\* ---- C34 ------------------------------------------------------------------
\* The worker has passed the while test and stands before the dequeue.
PastLoopTest == pc \in {"poll", "get"}
\* late_gets counts the events dequeued while play_game was false: at most
\* one, and only by a worker that had passed the while test when the flag
\* was cleared; after it the worker does not come back to the queue.
C34_State ==
    /\ late_gets <= 1
    /\ (~play_game /\ PastLoopTest) => late_gets = 0
    /\ late_gets = 1 => ~play_game
\* Once the flag is false the worker does not pass the while test again, and
\* once the worker has ended nothing is dequeued: the events in the queue
\* stay there, in order.
C34_Step ==
    /\ (~play_game /\ ~PastLoopTest) => (n_get' = n_get /\ ~PastLoopTest')
    /\ WorkerEnded
       => /\ n_get' = n_get /\ WorkerEnded'
          /\ Len(queue') >= Len(queue)
          /\ SubSeq(queue', 1, Len(queue)) = queue

\* C34: after play_game is set to false the worker dequeues at most one more
\* event (the one it was about to get when the flag was cleared) and then
\* ends; the events left in the queue are never dequeued.
C34_AtMostOneLateEvent ==
    /\ []C34_State
    /\ [][C34_Step]_vars
    /\ (~play_game) ~> WorkerEnded

\* C34 witness: the worker has left its loop after one event dequeued with
\* the flag already false, and an event is still in the queue.
C34_Witness ==
    /\ pc = "done" /\ ~play_game
    /\ late_gets = 1
    /\ queue # <<>>

\* ---- C35 ------------------------------------------------------------------
\* The k-th press put has been dequeued and the worker is through with it.
Handled(k) == n_get > k \/ (n_get = k /\ pc \in Waiting \cup EndPositions)
\* A press put in the queue has not been dequeued yet.
Pending == n_get < n_put
\* A poll that finds an event goes on to get it, and events are got in the
\* order they were put: the n-th get takes the n-th event put.
C35_Step ==
    /\ (pc = "poll" /\ queue # <<>> /\ pc' # pc) => pc' = "get"
    /\ n_get' # n_get
       => /\ n_get' = n_get + 1 /\ last_seq' = n_get'
          /\ last_button' = QueueFront(queue).slot
          /\ queue' = QueueRest(queue)

\* C35: under weak fairness of the worker, every press put in the queue is
\* dequeued and handled once the worker runs, unless the exit signal clears
\* play_game or the game reaches its end first; presses are dequeued in the
\* order they were put, and a poll that finds an event always takes it.
\* (n_get grows by one at a time and the n-th get takes the n-th press, so
\* "the oldest pending press is dequeued and handled" is stated as: while a
\* press is pending, n_get leaves its parity and the worker gets through
\* with that event; every pending press becomes the oldest in its turn.)
C35_EveryPressHandled ==
    /\ [][C35_Step]_vars
    /\ \A par \in {0, 1} :
          (Pending /\ WorkerRunning /\ n_get % 2 = par)
             ~> \/ n_get % 2 # par /\ Handled(n_get)
                \/ ~play_game
                \/ pc \in EndPositions

\* C35 witness: with the pairing made, every press the bound allows has been
\* put and handled, and the worker is still running with the flag set.
C35_Witness ==
    /\ pairs # <<>>
    /\ n_put = MaxPresses /\ Handled(MaxPresses)
    /\ play_game /\ pc = "loop"

\* ---- C36 ------------------------------------------------------------------
\* The worker stands at queue.get() only with an event in the queue, so the
\* get can return; a running worker can always take its next step.
C36_State ==
    /\ pc = "get" => (queue # <<>> /\ ENABLED GetEvent)
    /\ WorkerRunning => ENABLED Worker
\* Only the worker's get removes events: every other step leaves the queue
\* as it is or appends to it; the worker reaches the get only from a poll
\* that saw an event, and an empty poll goes straight back to the test of
\* play_game.
C36_StepOK ==
    /\ Len(queue') < Len(queue) => (pc = "get" /\ pc' = "lookup")
    /\ ~(pc = "get" /\ pc' # pc)
       => (Len(queue') >= Len(queue) /\ SubSeq(queue', 1, Len(queue)) = queue)
    /\ (pc' = "get" /\ pc # "get") => (pc = "poll" /\ queue # <<>>)
    /\ (pc = "poll" /\ queue = <<>> /\ pc' # pc) => pc' = "loop"

\* C36: the worker never blocks on the queue: it stands at the get only
\* after a poll that saw the queue non-empty, no other thread removes events
\* in between, so the get returns at once; from every position of its loop a
\* running worker can step on, and an empty poll returns to the test of the
\* flag.
C36_NeverBlocksOnQueue == []C36_State /\ [][C36_StepOK]_vars

\* C36 witness: the worker stands at the get with the queue full, after more
\* presses arrived behind the event it saw.
C36_Witness ==
    /\ pc = "get"
    /\ Len(queue) = MaxQueue
    /\ n_get >= 1

=============================================================================
